---- MODULE Spec2Model ----
(***************************************************************************)
(* State-machine model of the password_breach_check component:             *)
(*   src/password_breach_check.cc   Breach_checker (constructors, check,   *)
(*                                  generate_digest, password_breach_data) *)
(*   src/password_validation_impl.cc  validate, get_strength and the       *)
(*                                  password_breach_check function         *)
(* Text is modelled as sequences of one-character strings; positions are   *)
(* 0-based as in std::string.                                              *)
(***************************************************************************)
EXTENDS Integers, Sequences, FiniteSets, TLC

(***************************************************************************)
(* Program constants                                                       *)
(***************************************************************************)
\* src/password_breach_check.cc:38
MAX_LENGTH == 512
\* src/password_breach_check.cc:41
SHA1_HASH_SIZE == 20
\* src/password_breach_check.cc:47
WAIT == 2
\* src/password_validation_impl.cc:34
MAX_RETVAL == 1000000
\* src/password_breach_check.cc:71 and :78, retry_{3}
RETRY_INIT == 3
\* src/password_breach_check.cc:107, sha1_digest.substr(0, 5)
PREFIX_LEN == 5
\* std::string::npos is the largest size_t; it is modelled as -1, so that
\* npos + 1 = 0 as in the unsigned arithmetic of the source (line 134, 137).
npos == -1

(***************************************************************************)
(* Bounds of the model                                                     *)
(***************************************************************************)
\* number of lines in a corpus response
MaxLines == 2
\* number of secondary validators registered with the broadcast service
MaxValidators == 2

\* how often the component is loaded, how often its teardown is attempted,
\* and how many direct calls of the environment functions are followed
MaxLoads == 2

MaxTeardowns == 3

MaxEnvCalls == 10

(***************************************************************************)
(* Characters and strings                                                  *)
(***************************************************************************)
HexChars == <<"0","1","2","3","4","5","6","7","8","9","A","B","C","D","E","F">>

DecChars == <<"0","1","2","3","4","5","6","7","8","9">>

CR == "\r"

LF == "\n"

CRLF == <<CR, LF>>

IsDigit(c) == c \in {"0","1","2","3","4","5","6","7","8","9"}

IsHex(c) == IsDigit(c) \/ c \in {"A","B","C","D","E","F"}

DigitVal(c) == (CHOOSE i \in 1..10 : DecChars[i] = c) - 1

\* isspace() of the C locale
IsSpace(c) == c \in {" ", "\t", LF, CR}

\* std::string(n, c)
Repeat(c, n) == [i \in 1..n |-> c]

\* std::string::substr(pos): the characters from 0-based pos to the end
SubStrFrom(s, pos) == SubSeq(s, pos + 1, Len(s))

\* std::string::substr(pos, n): at most n characters from 0-based pos
SubStr(s, pos, n) ==
  SubSeq(s, pos + 1, IF pos + n > Len(s) THEN Len(s) ELSE pos + n)

\* std::string::find(pat, from): 0-based position of the first occurrence
\* of pat at or after from, npos when there is none (or from is npos)
RECURSIVE Find(_, _, _)
Find(s, pat, from) ==
  IF from = npos \/ from + Len(pat) > Len(s) THEN npos
  ELSE IF SubSeq(s, from + 1, from + Len(pat)) = pat THEN from
  ELSE Find(s, pat, from + 1)

\* operator<< of an integer: its decimal digits
RECURSIVE NatDigits(_)
NatDigits(n) ==
  IF n < 10 THEN <<DecChars[n + 1]>>
  ELSE NatDigits(n \div 10) \o <<DecChars[(n % 10) + 1]>>

IntDigits(n) == IF n < 0 THEN <<"-">> \o NatDigits(-n) ELSE NatDigits(n)

(***************************************************************************)
(* std::stoll                                                              *)
(***************************************************************************)
\* LLONG_MAX = 9223372036854775807 as digits
LLONG_MAX_DIGITS ==
  <<"9","2","2","3","3","7","2","0","3","6","8","5","4","7","7","5","8","0","7">>

RECURSIVE SkipSpace(_)
SkipSpace(s) ==
  IF s # <<>> /\ IsSpace(Head(s)) THEN SkipSpace(Tail(s)) ELSE s

RECURSIVE DigitRun(_)
DigitRun(s) ==
  IF s # <<>> /\ IsDigit(Head(s)) THEN <<Head(s)>> \o DigitRun(Tail(s))
  ELSE <<>>

RECURSIVE StripZeros(_)
StripZeros(d) ==
  IF Len(d) > 1 /\ Head(d) = "0" THEN StripZeros(Tail(d)) ELSE d

RECURSIVE DigitsValue(_)
DigitsValue(d) ==
  IF d = <<>> THEN 0
  ELSE 10 * DigitsValue(SubSeq(d, 1, Len(d) - 1)) + DigitVal(d[Len(d)])

\* a < b for digit strings of the same length
RECURSIVE DigitsLess(_, _)
DigitsLess(a, b) ==
  IF a = <<>> THEN FALSE
  ELSE IF Head(a) # Head(b) THEN DigitVal(Head(a)) < DigitVal(Head(b))
  ELSE DigitsLess(Tail(a), Tail(b))

\* the magnitude d (no leading zeros) exceeds LLONG_MAX (for a negative
\* number the limit is one larger; the inputs of the model never sit on it)
TooBig(d) ==
  \/ Len(d) > Len(LLONG_MAX_DIGITS)
  \/ Len(d) = Len(LLONG_MAX_DIGITS) /\ DigitsLess(LLONG_MAX_DIGITS, d)

\* std::stoll(s): leading white space is skipped, an optional sign and the
\* longest run of decimal digits are converted, what follows is ignored.
\* No digit: std::invalid_argument; value out of range: std::out_of_range.
StoLL(s) ==
  LET t    == SkipSpace(s)
      neg  == t # <<>> /\ Head(t) = "-"
      sgn  == t # <<>> /\ Head(t) \in {"-", "+"}
      run  == DigitRun(IF sgn THEN Tail(t) ELSE t)
      mag  == StripZeros(run)
  IN  IF run = <<>> THEN [ok |-> FALSE, err |-> "invalid_argument", val |-> 0]
      ELSE IF TooBig(mag) THEN [ok |-> FALSE, err |-> "out_of_range", val |-> 0]
      ELSE [ok |-> TRUE, err |-> "none",
            val |-> IF neg THEN 0 - DigitsValue(mag) ELSE DigitsValue(mag)]

(***************************************************************************)
(* Diagnostics                                                             *)
(***************************************************************************)
ERROR_LEVEL == "ERROR_LEVEL"

WARNING_LEVEL == "WARNING_LEVEL"

\* raise_error(): the log event carries the fixed preamble and the message
raise_error(error_message, level) ==
  [prio |-> level,
   msg  |-> <<"password_breach_check component reported: ">> \o error_message]

(***************************************************************************)
(* Digest: generate_digest()                                               *)
(***************************************************************************)
\* byte value of a password character
Ord(c) == CASE c = "a" -> 97 [] c = "b" -> 98 [] c = "c" -> 99 [] OTHER -> 63

\* sum of the bytes p[lo..hi], by halves
RECURSIVE SumRange(_, _, _)
SumRange(p, lo, hi) ==
  IF lo > hi THEN 0
  ELSE IF lo = hi THEN Ord(p[lo])
  ELSE SumRange(p, lo, (lo + hi) \div 2) + SumRange(p, ((lo + hi) \div 2) + 1, hi)

SumBytes(p) == SumRange(p, 1, Len(p)) % 65536

\* EVP_DigestInit/Update/Final with EVP_sha1(): the library's hash is a fixed
\* function from the password bytes to SHA1_HASH_SIZE bytes.  The model keeps
\* the width and the determinism and uses a small mixing function in its
\* place; passwords with the same first byte / 2 share their first 3 bytes.
EVP_sha1(p) ==
  [i \in 1..SHA1_HASH_SIZE |->
     IF i <= 3
       THEN (((IF p = <<>> THEN 0 ELSE Ord(p[1])) \div 2) * 37 + i * 59) % 256
       ELSE (SumBytes(p) * 31 + Len(p) * 17 + i * 101) % 256]

\* mutant: no std::setw(2) / std::setfill('0'), a byte below 16 gives one character
HexByte_NoPadding(b) ==
  IF b < 16 THEN <<HexChars[b + 1]>>
  ELSE <<HexChars[(b \div 16) + 1], HexChars[(b % 16) + 1]>>

\* std::setw(2) << std::setfill('0') << std::hex << std::uppercase
\*   << (int)(unsigned char)character
HexByte(b) == <<HexChars[(b \div 16) + 1], HexChars[(b % 16) + 1]>>

\* the loop of lines 222-225 over the raw digest
RECURSIVE HexEncode(_)
HexEncode(bytes) ==
  IF bytes = <<>> THEN <<>> ELSE HexByte(Head(bytes)) \o HexEncode(Tail(bytes))

\* what the OpenSSL calls of generate_digest can do
DigestOutcomes == {"ok", "ctx_null", "init_fail", "update_fail", "final_fail"}

\* error_out(): one error-level diagnostic with the OpenSSL error string
error_out ==
  raise_error(<<"Received error from OpenSSL: ", "<openssl error string>">>,
              ERROR_LEVEL)

\* generate_digest(digest): err is the return value (true: error)
generate_digest(password, outcome) ==
  IF outcome = "ctx_null" THEN [err |-> TRUE, digest |-> <<>>, logs |-> <<>>]
  ELSE IF outcome # "ok" THEN [err |-> TRUE, digest |-> <<>>, logs |-> <<error_out>>]
  ELSE [err |-> FALSE, digest |-> HexEncode(EVP_sha1(password)), logs |-> <<>>]

(***************************************************************************)
(* Inputs: passwords, converter outcomes, transport outcomes               *)
(***************************************************************************)
\* args->args[0] of the function: a null pointer or a C string
UdfArgs(ps) ==
  {[null |-> TRUE, str |-> <<>>]} \cup {[null |-> FALSE, str |-> p] : p \in ps}

\* passwords handed to the entry points: empty, two that share a digest
\* prefix, and one longer than MAX_LENGTH
Passwords ==
  {<<>>, <<"b">>, <<"c">>, Repeat("a", MAX_LENGTH + 1)}

\* mysql_string_converter->convert_to_buffer(password, buffer, sizeof(buffer),
\* "utf8mb3"): a host service.  It reports failure, or leaves a NUL-terminated
\* conversion of at most sizeof(buffer) - 1 bytes in the buffer.
ConvertOutcomes(h) ==
  {[failed |-> TRUE, buffer |-> <<>>],
   [failed |-> FALSE,
    buffer |-> SubSeq(h, 1, IF Len(h) > MAX_LENGTH - 1 THEN MAX_LENGTH - 1 ELSE Len(h))]}

\* a suffix of the corpus other than s
OtherSuffix(s) == <<IF s[1] = "0" THEN "1" ELSE "0">> \o Tail(s)

\* the lines a corpus response is made of, for a check whose suffix is s:
\* records of the documented form and records that break it
CorpusLines(s) ==
  { s \o <<":", "3">>,
    OtherSuffix(s) \o <<":", "7">>,
    s \o <<":", "1","0","0","0","0","0","0">>,
    s \o <<":">>,
    s \o <<":", "x", "9">>,
    s,
    s \o <<":">> \o Repeat("9", 20),
    <<"F">> \o s \o <<":", "5">> }

RECURSIVE JoinLines(_)
JoinLines(ls) ==
  IF ls = <<>> THEN <<>>
  ELSE IF Len(ls) = 1 THEN ls[1]
  ELSE ls[1] \o CRLF \o JoinLines(Tail(ls))

\* response bodies: up to MaxLines lines separated by CRLF, the last line with
\* or without a line ending; the empty body
Responses(s) ==
  {<<>>} \cup
  UNION { { JoinLines(ls), JoinLines(ls) \o CRLF } :
          ls \in UNION { [1..n -> CorpusLines(s)] : n \in 1..MaxLines } }

CURLE_OK == "CURLE_OK"

\* curl_easy_perform() results other than CURLE_OK
CurlErrors == {"CURLE_COULDNT_CONNECT"}

\* curl_easy_strerror(res)
curl_easy_strerror(res) == "<" \o res \o ">"

\* URL_PREFIX, src/password_breach_check.cc:44
URL_PREFIX ==
  <<"h","t","t","p","s",":","/","/","a","p","i",".","p","w","n","e","d",
    "p","a","s","s","w","o","r","d","s",".","c","o","m","/","r","a","n","g","e","/">>

(***************************************************************************)
(* Secondary validators (service_broadcast)                                *)
(***************************************************************************)
\* what one secondary validator answers: failed is its return value (true:
\* failure), strength the value its get_strength stores
ValidatorAnswers ==
  {[failed |-> TRUE, strength |-> 0], [failed |-> FALSE, strength |-> 0],
   [failed |-> FALSE, strength |-> 50], [failed |-> FALSE, strength |-> 100]}

ValidatorRuns == UNION { [1..n -> ValidatorAnswers] : n \in 0..MaxValidators }

\* service_broadcast::broadcast(f): f is applied to the registered services
\* in order until one returns true; the result is whether one did
FirstFailure(vs) ==
  IF \E i \in 1..Len(vs) : vs[i].failed
    THEN CHOOSE i \in 1..Len(vs) :
           vs[i].failed /\ \A j \in 1..(i - 1) : ~vs[j].failed
    ELSE 0

broadcast(vs) ==
  [ret    |-> FirstFailure(vs) # 0,
   called |-> IF FirstFailure(vs) # 0 THEN FirstFailure(vs) ELSE Len(vs)]

Min(a, b) == IF a < b THEN a ELSE b

\* std::min(*strength, auto_strength) over the validators that were applied
\* and did not fail (line 126)
RECURSIVE MinStrength(_, _, _)
MinStrength(strength0, vs, n) ==
  IF n = 0 THEN strength0
  ELSE LET before == MinStrength(strength0, vs, n - 1)
       IN  IF vs[n].failed THEN before ELSE Min(before, vs[n].strength)

(***************************************************************************)
(* State                                                                   *)
(***************************************************************************)
VARIABLES
  pc,             \* position of the call in progress
  entry,          \* entry point of the call: "udf", "validate", "get_strength"
  ready_,         \* Breach_checker::ready_
  password_,      \* Breach_checker::password_
  retry_,         \* Breach_checker::retry_
  sha1_digest,    \* check(): sha1_digest
  prefix,         \* check(): prefix
  suffix,         \* check(): suffix
  out_data,       \* check(): out_data
  count,          \* check(): count
  url,            \* password_breach_data(): url
  retry,          \* password_breach_data(): retry
  res,            \* password_breach_data(): res
  error_message,  \* password_breach_data(): contents of the stringstream
  requests,       \* URLs handed to curl_easy_perform, in order
  results,        \* results of curl_easy_perform, in order
  handles,        \* [created, cleaned]: curl_easy_init / curl_easy_cleanup calls
  trace,          \* steps of the call, in order
  log,            \* diagnostics raised, in order
  retval,         \* value returned by password_breach_check()
  status,         \* value returned by validate / get_strength (true: failure)
  strength,       \* get_strength(): *strength
  udf_error,      \* password_breach_check(): *error
  consulted,      \* secondary validators applied by broadcast, -1: no broadcast
  rejected,       \* a secondary validator applied in this call reported failure
  answers,        \* what the secondary validators applied in this call answered
  input,          \* the password handed to the entry point and what the
                  \* string converter did with it ("none": not used)
  curl_init_done, \* password_breach_check.cc: static bool curl_init_done
  global,         \* [inits, cleanups, deinits]: calls of curl_global_init,
                  \* of curl_global_cleanup and of deinit_environment
  loaded,         \* the component's init returned false and no deinit has since
  service_on,     \* service_broadcast is initialised
  registered,     \* the password_breach_check function is registered
  component_log   \* diagnostics raised by the last init / deinit of the component

checker == <<ready_, password_, retry_>>

locals == <<sha1_digest, prefix, suffix, out_data, count>>

lookup == <<url, retry, res, error_message, requests, results, handles>>

outputs == <<retval, status, strength, udf_error, consulted, rejected, answers>>

environment == <<curl_init_done, global>>

component == <<loaded, service_on, registered, component_log>>

call == <<pc, entry, checker, locals, lookup, trace, log, outputs, input>>

vars == <<call, environment, component>>

NoValue == "unset"

\* no call in progress
Idle ==
  /\ pc = "idle"
  /\ entry = "none"
  /\ ready_ = FALSE
  /\ password_ = <<>>
  /\ retry_ = RETRY_INIT
  /\ sha1_digest = <<>>
  /\ prefix = <<>>
  /\ suffix = <<>>
  /\ out_data = <<>>
  /\ count = MAX_RETVAL
  /\ url = <<>>
  /\ retry = 0
  /\ res = NoValue
  /\ error_message = <<>>
  /\ requests = <<>>
  /\ results = <<>>
  /\ handles = [created |-> 0, cleaned |-> 0]
  /\ trace = <<>>
  /\ log = <<>>
  /\ retval = 0
  /\ status = FALSE
  /\ strength = 0
  /\ udf_error = 0
  /\ consulted = -1
  /\ rejected = FALSE
  /\ answers = <<>>
  /\ input = [null |-> TRUE, str |-> <<>>, conv |-> "none"]

\* the server before INSTALL COMPONENT
NotInstalled ==
  /\ curl_init_done = FALSE
  /\ global = [inits |-> 0, cleanups |-> 0, deinits |-> 0]
  /\ loaded = FALSE
  /\ service_on = FALSE
  /\ registered = FALSE
  /\ component_log = <<>>

\* the server after password_breach_check_init has returned false
Installed ==
  /\ curl_init_done = TRUE
  /\ global = [inits |-> 1, cleanups |-> 0, deinits |-> 0]
  /\ loaded = TRUE
  /\ service_on = TRUE
  /\ registered = TRUE
  /\ component_log = <<>>

\* the calls are followed in a component that is installed
Init == Idle /\ Installed

\* a call starts with fresh locals: every call constructs its own checker
FreshCall ==
  /\ pc = "idle"
  /\ sha1_digest' = <<>>
  /\ prefix' = <<>>
  /\ suffix' = <<>>
  /\ out_data' = <<>>
  /\ count' = MAX_RETVAL
  /\ url' = <<>>
  /\ retry' = 0
  /\ res' = NoValue
  /\ error_message' = <<>>
  /\ requests' = <<>>
  /\ results' = <<>>
  /\ handles' = [created |-> 0, cleaned |-> 0]
  /\ consulted' = -1
  /\ rejected' = FALSE
  /\ answers' = <<>>
  /\ status' = FALSE

(***************************************************************************)
(* Constructors and entry points                                           *)
(***************************************************************************)
\* Breach_checker::Breach_checker(const char *password)
Breach_checker_cstr(password) ==
  [ready_ |-> TRUE, password_ |-> IF password.null THEN <<>> ELSE password.str,
   retry_ |-> RETRY_INIT, logs |-> <<>>]

\* Breach_checker::Breach_checker(my_h_string password), conv: what the
\* string converter did
Breach_checker_hstr(conv) ==
  IF conv.failed
    THEN [ready_ |-> FALSE, password_ |-> <<>>, retry_ |-> RETRY_INIT,
          logs |-> <<raise_error(<<"Failed to convert password to 'utf8' format.">>,
                                 ERROR_LEVEL)>>]
    ELSE [ready_ |-> TRUE, password_ |-> conv.buffer, retry_ |-> RETRY_INIT,
          logs |-> <<>>]

\* Password_validation::password_breach_check, up to the call of check()
password_breach_check(arg) ==
  /\ registered
  /\ FreshCall
  /\ UNCHANGED <<environment, component>>
  /\ entry' = "udf"
  /\ input' = [null |-> arg.null, str |-> arg.str, conv |-> "none"]
  /\ strength' = 0
  /\ IF arg.null
       THEN /\ log' = <<raise_error(
                   <<"Provide an non-empty password value to password_breach_check function.">>,
                   ERROR_LEVEL)>>
            /\ udf_error' = 1
            /\ retval' = MAX_RETVAL
            /\ pc' = "done"
            /\ trace' = <<"return">>
            /\ ready_' = FALSE
            /\ password_' = <<>>
            /\ retry_' = RETRY_INIT
       ELSE LET bc == Breach_checker_cstr(arg)
            IN  /\ ready_' = bc.ready_
                /\ password_' = bc.password_
                /\ retry_' = bc.retry_
                /\ log' = bc.logs
                /\ udf_error' = 1
                /\ retval' = 0
                /\ pc' = "check"
                /\ trace' = <<"constructed">>

\* Password_validation::validate, up to the call of check()
validate(h, conv) ==
  /\ loaded
  /\ FreshCall
  /\ UNCHANGED <<environment, component>>
  /\ entry' = "validate"
  /\ input' = [null |-> FALSE, str |-> h, conv |-> IF conv.failed THEN "failed" ELSE "ok"]
  /\ LET bc == Breach_checker_hstr(conv)
     IN  /\ ready_' = bc.ready_
         /\ password_' = bc.password_
         /\ retry_' = bc.retry_
         /\ log' = bc.logs
  /\ strength' = 0
  /\ udf_error' = 0
  /\ retval' = 0
  /\ pc' = "check"
  /\ trace' = <<"constructed">>

\* Password_validation::get_strength, up to the call of check()
get_strength(h, conv) ==
  /\ loaded
  /\ FreshCall
  /\ UNCHANGED <<environment, component>>
  /\ entry' = "get_strength"
  /\ input' = [null |-> FALSE, str |-> h, conv |-> IF conv.failed THEN "failed" ELSE "ok"]
  /\ strength' = 0
  /\ LET bc == Breach_checker_hstr(conv)
     IN  /\ ready_' = bc.ready_
         /\ password_' = bc.password_
         /\ retry_' = bc.retry_
         /\ log' = bc.logs
  /\ udf_error' = 0
  /\ retval' = 0
  /\ pc' = "check"
  /\ trace' = <<"constructed">>

(***************************************************************************)
(* Breach_checker::check, steps 1 to 3 up to the lookup                    *)
(***************************************************************************)
\* mutant: the prefix is one character too long
SplitDigest_LongPrefix(digest) ==
  [prefix |-> SubStr(digest, 0, PREFIX_LEN + 1),
   suffix |-> SubStrFrom(digest, PREFIX_LEN + 1)]

\* mutant: the suffix starts one character early
SplitDigest_Overlap(digest) ==
  [prefix |-> SubStr(digest, 0, PREFIX_LEN),
   suffix |-> SubStrFrom(digest, PREFIX_LEN - 1)]

\* lines 107-108: prefix and suffix of the digest
SplitDigest(digest) ==
  [prefix |-> SubStr(digest, 0, PREFIX_LEN), suffix |-> SubStrFrom(digest, PREFIX_LEN)]

\* lines 268-269: the request URL
BuildUrl(pfx) == URL_PREFIX \o pfx

\* mutant: the length of the password is not looked at
Sane_NoLength(ready, password) == ready

\* line 100: the sanity check
Sane(ready, password) == ready /\ Len(password) # 0

check(d) ==
  /\ pc = "check"
  /\ IF ~Sane(ready_, password_)
       THEN /\ pc' = "checked"
            /\ count' = MAX_RETVAL
            /\ trace' = Append(trace, "not_checkable")
            /\ UNCHANGED <<sha1_digest, prefix, suffix, out_data, log, lookup>>
       ELSE LET g == generate_digest(password_, d)
                k == SplitDigest(g.digest)
            IN  IF g.err
                  THEN /\ pc' = "checked"
                       /\ count' = MAX_RETVAL
                       /\ log' = log \o g.logs
                       /\ trace' = Append(trace, "digest_failed")
                       /\ UNCHANGED <<sha1_digest, prefix, suffix, out_data, lookup>>
                  ELSE /\ sha1_digest' = g.digest
                       /\ prefix' = k.prefix
                       /\ suffix' = k.suffix
                       /\ url' = BuildUrl(k.prefix)
                       /\ retry' = retry_
                       /\ pc' = "query"
                       /\ trace' = Append(trace, "digest")
                       /\ UNCHANGED <<out_data, count, log, res, error_message,
                                      requests, results, handles>>
  /\ UNCHANGED <<entry, checker, outputs, input, environment, component>>

(***************************************************************************)
(* Breach_checker::password_breach_data: one turn of the retry loop, and   *)
(* what follows the loop when the turn ends it                             *)
(***************************************************************************)
\* what curl_easy_perform can do for a check whose suffix is s
PerformOutcomes(s) ==
  {[code |-> e, body |-> <<>>] : e \in CurlErrors} \cup
  {[code |-> CURLE_OK, body |-> b] : b \in Responses(s)}

\* mutant: the loop runs once more
LoopContinues_OneMore(r) == r >= 0

\* line 275: the loop condition
LoopContinues(r) == r > 0

\* lines 293-294
GetErrorText(code) ==
  <<"Error making GET request. CURL returned: ", curl_easy_strerror(code)>>

\* lines 297-299
RetryText(r) ==
  IF r > 0 THEN <<"Retrying ">> \o IntDigits(r) \o <<" times before giving up.">>
  ELSE <<>>

\* lines 312-315
GivingUpText(n, pfx) ==
  <<"Tried ">> \o IntDigits(n) \o <<" times for SHA1 prefix: '">> \o pfx \o
  <<"'. Giving up. Please verify that https://api.pwnedpasswords.com/range is accessible (Should show 'Invalid API query' as response).">>

\* mutant: the return value has the opposite sense
AfterLoop_Inverted(r, code, stream) ==
  [logs   |-> IF r = 0
                THEN <<raise_error(stream \o GivingUpText(retry_, prefix), WARNING_LEVEL)>>
                ELSE <<>>,
   stream |-> IF r = 0 THEN stream \o GivingUpText(retry_, prefix) ELSE stream,
   failed |-> code = CURLE_OK]

\* mutant: the summary is raised whatever is left of the retries
AfterLoop_AlwaysSummary(r, code, stream) ==
  [logs   |-> <<raise_error(stream \o GivingUpText(retry_, prefix), WARNING_LEVEL)>>,
   stream |-> stream \o GivingUpText(retry_, prefix),
   failed |-> code # CURLE_OK]

\* lines 310-318: after the loop; stream is the stringstream's contents
AfterLoop(r, code, stream) ==
  [logs   |-> IF r = 0
                THEN <<raise_error(stream \o GivingUpText(retry_, prefix), WARNING_LEVEL)>>
                ELSE <<>>,
   stream |-> IF r = 0 THEN stream \o GivingUpText(retry_, prefix) ELSE stream,
   failed |-> code # CURLE_OK]

password_breach_data(h, r) ==
  /\ pc = "query"
  /\ IF ~h
       THEN \* curl_easy_init() returned nullptr: return true
            /\ pc' = "checked"
            /\ count' = MAX_RETVAL
            /\ trace' = trace \o <<"easy_init_null">>
            /\ UNCHANGED <<sha1_digest, prefix, suffix, out_data, log, lookup>>
       ELSE /\ requests' = Append(requests, url)
            /\ results' = Append(results, r.code)
            /\ res' = r.code
            /\ UNCHANGED <<sha1_digest, prefix, suffix, url>>
            /\ IF r.code # CURLE_OK
                 THEN LET m1   == error_message \o GetErrorText(r.code)
                          m2   == RetryText(retry)
                          logs == <<raise_error(m1, ERROR_LEVEL),
                                    raise_error(m2, WARNING_LEVEL)>>
                          left == retry - 1
                          end  == AfterLoop(left, r.code, m2)
                      IN  /\ handles' = [created |-> handles.created + 1,
                                         cleaned |-> handles.cleaned + 1]
                          /\ retry' = left
                          /\ UNCHANGED out_data
                          /\ IF LoopContinues(left)
                               THEN /\ pc' = "query"
                                    /\ error_message' = m2
                                    /\ log' = log \o logs
                                    /\ trace' = trace \o
                                         <<"easy_init", "perform_failed", "cleanup", "sleep">>
                                    /\ UNCHANGED count
                               ELSE /\ error_message' = end.stream
                                    /\ log' = log \o logs \o end.logs
                                    /\ trace' = trace \o
                                         <<"easy_init", "perform_failed", "cleanup", "sleep">>
                                    /\ pc' = IF end.failed THEN "checked" ELSE "match"
                                    /\ count' = MAX_RETVAL
                 ELSE LET end == AfterLoop(retry, r.code, error_message)
                      IN  /\ handles' = [handles EXCEPT !.created = @ + 1]
                          /\ out_data' = r.body
                          /\ UNCHANGED retry
                          /\ error_message' = end.stream
                          /\ log' = log \o end.logs
                          /\ trace' = trace \o <<"easy_init", "perform_ok">>
                          /\ pc' = IF end.failed THEN "checked" ELSE "match"
                          /\ count' = MAX_RETVAL
  /\ UNCHANGED <<entry, checker, outputs, input, environment, component>>

(***************************************************************************)
(* Breach_checker::check, step 4: search for the hash suffix               *)
(***************************************************************************)
\* mutant: the last entry, which has no line ending, is not parsed
ParseCount_NoLastEntry(out, pos0) ==
  LET pos == Find(out, <<":">>, pos0)
      nl  == Find(out, CRLF, pos)
  IN  IF nl # npos
        THEN StoLL(SubStr(out, pos + 1, nl - pos - 1))
        ELSE [ok |-> TRUE, err |-> "none", val |-> MAX_RETVAL]

\* lines 131-138: the count that follows the suffix found at pos0
ParseCount(out, pos0) ==
  LET pos == Find(out, <<":">>, pos0)
      nl  == Find(out, CRLF, pos)
  IN  IF nl # npos
        THEN StoLL(SubStr(out, pos + 1, nl - pos - 1))
        ELSE StoLL(SubStrFrom(out, pos + 1))

\* line 114
FindSuffix(out, sfx) == Find(out, sfx, 0)

\* lines 153-158
BreachText(pfx, n) ==
  <<"The password with SHA1 prefix '">> \o pfx \o
  <<"' entered by '", "<priv_user>", "'@'", "<priv_host>", "' has appeared ">> \o
  IntDigits(n) \o <<" times in password breaches.">>

check_search ==
  /\ pc = "match"
  /\ LET pos == FindSuffix(out_data, suffix)
         r   == ParseCount(out_data, pos)
     IN  IF pos = npos
           THEN /\ count' = 0
                /\ pc' = "checked"
                /\ trace' = Append(trace, "absent")
                /\ UNCHANGED log
           ELSE IF ~r.ok
             THEN \* std::stoll throws; nothing in check() catches it
                  /\ pc' = "thrown"
                  /\ trace' = Append(trace, r.err)
                  /\ UNCHANGED <<count, log>>
             ELSE /\ count' = r.val
                  /\ pc' = "checked"
                  /\ log' = Append(log, raise_error(BreachText(prefix, r.val), WARNING_LEVEL))
                  /\ trace' = Append(trace, "found")
  /\ UNCHANGED <<entry, checker, sha1_digest, prefix, suffix, out_data, lookup, outputs, input,
                 environment, component>>

(***************************************************************************)
(* The entry points after check() returned                                 *)
(***************************************************************************)
\* mutant: the answer of the secondary validators is dropped
validate_result_NoOverride(n, vs) ==
  IF n = 0
    THEN [status |-> n # 0, consulted |-> broadcast(vs).called]
    ELSE [status |-> n # 0, consulted |-> -1]

\* validate, lines 89-98
validate_result(n, vs) ==
  IF n = 0
    THEN [status |-> IF broadcast(vs).ret THEN TRUE ELSE n # 0,
          consulted |-> broadcast(vs).called]
    ELSE [status |-> n # 0, consulted |-> -1]

\* mutant: the strength is raised for every result but the sentinel
get_strength_result_NotSentinel(n, s0, vs) ==
  LET s1 == IF n # MAX_RETVAL THEN 100 ELSE s0
  IN  IF n = 0
        THEN [status |-> broadcast(vs).ret,
              strength |-> MinStrength(s1, vs, broadcast(vs).called),
              consulted |-> broadcast(vs).called]
        ELSE [status |-> FALSE, strength |-> s1, consulted |-> -1]

\* mutant: what the broadcast returns is dropped, get_strength reports success
get_strength_result_IgnoresBroadcast(n, s0, vs) ==
  LET s1 == IF n = 0 THEN 100 ELSE s0
  IN  IF n = 0
        THEN [status |-> FALSE,
              strength |-> MinStrength(s1, vs, broadcast(vs).called),
              consulted |-> broadcast(vs).called]
        ELSE [status |-> FALSE, strength |-> s1, consulted |-> -1]

\* get_strength, lines 117-131; s0 is *strength as set at line 114
get_strength_result(n, s0, vs) ==
  LET s1 == IF n = 0 THEN 100 ELSE s0
  IN  IF n = 0
        THEN [status |-> broadcast(vs).ret,
              strength |-> MinStrength(s1, vs, broadcast(vs).called),
              consulted |-> broadcast(vs).called]
        ELSE [status |-> FALSE, strength |-> s1, consulted |-> -1]

return(vs) ==
  /\ pc = "checked"
  /\ pc' = "done"
  /\ trace' = Append(trace, "return")
  /\ CASE entry = "udf" ->
            /\ udf_error' = 0
            /\ retval' = count
            /\ UNCHANGED <<status, strength, consulted, rejected, answers>>
       [] entry = "validate" ->
            /\ status' = validate_result(count, vs).status
            /\ consulted' = validate_result(count, vs).consulted
            /\ rejected' = (count = 0 /\ \E i \in 1..Len(vs) : vs[i].failed)
            /\ answers' = IF count = 0 THEN SubSeq(vs, 1, broadcast(vs).called) ELSE <<>>
            /\ UNCHANGED <<retval, strength, udf_error>>
       [] entry = "get_strength" ->
            /\ status' = get_strength_result(count, strength, vs).status
            /\ strength' = get_strength_result(count, strength, vs).strength
            /\ consulted' = get_strength_result(count, strength, vs).consulted
            /\ rejected' = (count = 0 /\ \E i \in 1..Len(vs) : vs[i].failed)
            /\ answers' = IF count = 0 THEN SubSeq(vs, 1, broadcast(vs).called) ELSE <<>>
            /\ UNCHANGED <<retval, udf_error>>
  /\ UNCHANGED <<entry, checker, locals, lookup, log, input, environment, component>>

\* the secondary validators a returning call reaches: the broadcast is made
\* by validate and get_strength only, and only when count is 0
ReachedValidators ==
  IF entry \in {"validate", "get_strength"} /\ count = 0 THEN ValidatorRuns ELSE {<<>>}

\* the call is over: its Breach_checker and its locals go out of scope
\* (~Breach_checker), nothing is kept for the next call
destroy ==
  /\ pc = "done"
  /\ pc' = "idle"
  /\ entry' = "none"
  /\ ready_' = FALSE
  /\ password_' = <<>>
  /\ retry_' = RETRY_INIT
  /\ sha1_digest' = <<>>
  /\ prefix' = <<>>
  /\ suffix' = <<>>
  /\ out_data' = <<>>
  /\ count' = MAX_RETVAL
  /\ url' = <<>>
  /\ retry' = 0
  /\ res' = NoValue
  /\ error_message' = <<>>
  /\ requests' = <<>>
  /\ results' = <<>>
  /\ handles' = [created |-> 0, cleaned |-> 0]
  /\ trace' = <<>>
  /\ log' = <<>>
  /\ retval' = 0
  /\ status' = FALSE
  /\ strength' = 0
  /\ udf_error' = 0
  /\ consulted' = -1
  /\ rejected' = FALSE
  /\ answers' = <<>>
  /\ input' = [null |-> TRUE, str |-> <<>>, conv |-> "none"]
  /\ UNCHANGED <<environment, component>>

(***************************************************************************)
(* The transport environment and the component's init and deinit           *)
(***************************************************************************)
\* Breach_checker::init_environment, lines 52-55
init_environment(done, g) ==
  [curl_init_done |-> TRUE, global |-> [g EXCEPT !.inits = @ + 1]]

\* mutant: the flag is not looked at
deinit_environment_Unguarded(done, g) ==
  [curl_init_done |-> FALSE,
   global |-> [g EXCEPT !.cleanups = @ + 1, !.deinits = @ + 1]]

\* Breach_checker::deinit_environment, lines 58-63
deinit_environment(done, g) ==
  IF done
    THEN [curl_init_done |-> FALSE,
          global |-> [g EXCEPT !.cleanups = @ + 1, !.deinits = @ + 1]]
    ELSE [curl_init_done |-> done, global |-> [g EXCEPT !.deinits = @ + 1]]

\* Password_validation::register_functions; failed: what udf_register returned
register_functions(failed) ==
  IF failed
    THEN [ret |-> TRUE, registered |-> FALSE,
          logs |-> <<raise_error(<<"Failed to register password_breach_check function.">>,
                                 ERROR_LEVEL)>>]
    ELSE [ret |-> FALSE, registered |-> TRUE, logs |-> <<>>]

\* Password_validation::unregister_functions; failed: what udf_unregister
\* returned, present: the function was registered (was_present)
unregister_functions(failed, present) ==
  IF failed /\ present
    THEN [ret |-> TRUE, registered |-> present,
          logs |-> <<raise_error(<<"Failed to unregister password_breach_check function.">>,
                                 WARNING_LEVEL)>>]
    ELSE [ret |-> FALSE, registered |-> FALSE, logs |-> <<>>]

\* component.cc, password_breach_check_init; b: service_broadcast::init
\* failed, u: udf_register failed
password_breach_check_init(b, u) ==
  /\ ~loaded
  /\ global.inits < MaxLoads
  /\ IF b
       THEN /\ component_log' = <<>>
            /\ UNCHANGED <<environment, loaded, service_on, registered>>
       ELSE LET e1 == init_environment(curl_init_done, global)
                rf == register_functions(u)
                e2 == deinit_environment(e1.curl_init_done, e1.global)
            IN  IF rf.ret
                  THEN /\ curl_init_done' = e2.curl_init_done
                       /\ global' = e2.global
                       /\ service_on' = FALSE
                       /\ component_log' = rf.logs
                       /\ UNCHANGED <<loaded, registered>>
                  ELSE /\ curl_init_done' = e1.curl_init_done
                       /\ global' = e1.global
                       /\ service_on' = TRUE
                       /\ registered' = rf.registered
                       /\ loaded' = TRUE
                       /\ component_log' = rf.logs
  /\ UNCHANGED call

\* component.cc, password_breach_check_deinit; b: service_broadcast::deinit
\* failed, u: udf_unregister failed
password_breach_check_deinit(b, u) ==
  /\ loaded
  /\ global.deinits < MaxTeardowns
  /\ IF b
       THEN /\ component_log' = <<>>
            /\ UNCHANGED <<environment, loaded, service_on, registered>>
       ELSE LET e1 == deinit_environment(curl_init_done, global)
                uf == unregister_functions(u, registered)
            IN  /\ curl_init_done' = e1.curl_init_done
                /\ global' = e1.global
                /\ service_on' = FALSE
                /\ registered' = uf.registered
                /\ component_log' = uf.logs
                /\ loaded' = uf.ret
  /\ UNCHANGED call

\* a direct call of Breach_checker::init_environment
call_init_environment ==
  /\ global.inits < MaxEnvCalls
  /\ LET e == init_environment(curl_init_done, global)
     IN  /\ curl_init_done' = e.curl_init_done
         /\ global' = e.global
  /\ UNCHANGED <<call, component>>

\* a direct call of Breach_checker::deinit_environment
call_deinit_environment ==
  /\ global.deinits < MaxEnvCalls
  /\ LET e == deinit_environment(curl_init_done, global)
     IN  /\ curl_init_done' = e.curl_init_done
         /\ global' = e.global
  /\ UNCHANGED <<call, component>>

(***************************************************************************)
(* Specification                                                           *)
(***************************************************************************)
Next ==
  \/ \E a \in UdfArgs(Passwords) : password_breach_check(a)
  \/ \E h \in Passwords : \E c \in ConvertOutcomes(h) : validate(h, c)
  \/ \E h \in Passwords : \E c \in ConvertOutcomes(h) : get_strength(h, c)
  \/ \E d \in DigestOutcomes : check(d)
  \/ /\ pc = "query"
     /\ \E h \in BOOLEAN : \E r \in PerformOutcomes(suffix) : password_breach_data(h, r)
  \/ check_search
  \/ \E vs \in ReachedValidators : return(vs)
  \/ destroy

Spec == Init /\ [][Next]_vars

\* The life of the component: it is loaded and unloaded, with the failure
\* returns of both, while calls are made; the calls are followed for one
\* password and for the responses of a corpus of one line.
LifecyclePasswords == {<<"b">>}

LifecycleOutcomes(s) ==
  {[code |-> e, body |-> <<>>] : e \in CurlErrors} \cup
  {[code |-> CURLE_OK, body |-> b] : b \in {<<>>, s \o <<":", "3">> \o CRLF}}

LifecycleInit == Idle /\ NotInstalled

LifecycleNext ==
  \/ \E b \in BOOLEAN : \E u \in BOOLEAN : password_breach_check_init(b, u)
  \/ \E b \in BOOLEAN : \E u \in BOOLEAN : password_breach_check_deinit(b, u)
  \/ \E a \in UdfArgs(LifecyclePasswords) : password_breach_check(a)
  \/ \E h \in LifecyclePasswords : \E c \in ConvertOutcomes(h) : validate(h, c)
  \/ \E h \in LifecyclePasswords : \E c \in ConvertOutcomes(h) : get_strength(h, c)
  \/ \E d \in DigestOutcomes : check(d)
  \/ /\ pc = "query"
     /\ \E h \in BOOLEAN : \E r \in LifecycleOutcomes(suffix) : password_breach_data(h, r)
  \/ check_search
  \/ \E vs \in ReachedValidators : return(vs)
  \/ destroy

Lifecycle == LifecycleInit /\ [][LifecycleNext]_vars

\* The environment functions on their own, called in any order.
EnvironmentNext ==
  \/ call_init_environment
  \/ call_deinit_environment

Environment == LifecycleInit /\ [][EnvironmentNext]_vars

(***************************************************************************)
(* The corpus response as the protocol describes it: CRLF-separated lines  *)
(* <suffix>:<count>, the last line with or without a line ending           *)
(***************************************************************************)
SUFFIX_LEN == 2 * SHA1_HASH_SIZE - PREFIX_LEN

RECURSIVE Lines(_)
Lines(text) ==
  IF text = <<>> THEN <<>>
  ELSE LET nl == Find(text, CRLF, 0)
       IN  IF nl = npos THEN <<text>>
           ELSE <<SubStr(text, 0, nl)>> \o Lines(SubStrFrom(text, nl + 2))

HasColon(line) == Find(line, <<":">>, 0) # npos

SuffixField(line) ==
  IF HasColon(line) THEN SubStr(line, 0, Find(line, <<":">>, 0)) ELSE line

CountField(line) ==
  IF HasColon(line) THEN SubStrFrom(line, Find(line, <<":">>, 0) + 1) ELSE <<>>

IsCount(field) ==
  /\ field # <<>>
  /\ \A i \in 1..Len(field) : IsDigit(field[i])
  /\ ~TooBig(StripZeros(field))

WellFormedLine(line) ==
  LET colon == Find(line, <<":">>, 0)
  IN  /\ colon = SUFFIX_LEN
      /\ \A i \in 1..SUFFIX_LEN : IsHex(line[i])
      /\ IsCount(SubStrFrom(line, colon + 1))

WellFormed(text) ==
  LET ls == Lines(text) IN \A i \in 1..Len(ls) : WellFormedLine(ls[i])

\* the lines of text whose suffix field is sfx
Matching(text, sfx) ==
  LET ls == Lines(text) IN {i \in 1..Len(ls) : SuffixField(ls[i]) = sfx}

FirstMatching(text, sfx) ==
  LET ms == Matching(text, sfx)
  IN  Lines(text)[CHOOSE i \in ms : \A j \in ms : i <= j]

\* the lookup of this check ended with a successful response
Fetched == results # <<>> /\ results[Len(results)] = CURLE_OK

\* check() is past its search of the response
Searched == pc \in {"checked", "thrown", "done"} /\ Fetched

\* check() has returned
Returned == pc \in {"checked", "done"}

AllFailed == \A i \in 1..Len(results) : results[i] # CURLE_OK

InTrace(e) == \E i \in 1..Len(trace) : trace[i] = e

(***************************************************************************)
(* Claims                                                                  *)
(***************************************************************************)
\* C1: when a well-formed corpus response contains a line <suffix>:<n> whose
\* suffix is the computed suffix, check() returns n (and does not throw),
\* whether the line ends in CRLF or is the last line without a line ending;
\* the password_breach_check function hands that n to its caller.
C1_MatchedCountReturned ==
  (Searched /\ WellFormed(out_data) /\ Matching(out_data, suffix) # {})
    => /\ pc # "thrown"
       /\ count = DigitsValue(CountField(FirstMatching(out_data, suffix)))
       /\ (pc = "done" /\ entry = "udf") => retval = count

\* C1 witness: the matching line is the last of two lines and has no line
\* ending; its count, 3, was returned.
C1_Witness ==
  /\ pc = "done"
  /\ entry = "udf"
  /\ Fetched
  /\ WellFormed(out_data)
  /\ Len(Lines(out_data)) = 2
  /\ Matching(out_data, suffix) = {2}
  /\ Find(out_data, CRLF, Len(out_data) - 2) = npos
  /\ retval = 3

\* C2 (as claimed): for a non-empty password and any successfully retrieved
\* response in which no line's suffix field equals the computed suffix,
\* check() returns 0.
C2_NoMatchingLineReturnsZero ==
  (Searched /\ Len(password_) # 0 /\ Matching(out_data, suffix) = {})
    => (pc # "thrown" /\ count = 0)

\* C3: check() on a checker that is not ready, or whose password has length
\* 0, returns the sentinel; no digest was computed, no transport handle was
\* created and no request was made.
C3_NotCheckableNoTransport ==
  (pc # "idle" /\ (~ready_ \/ Len(password_) = 0))
    => /\ requests = <<>>
       /\ results = <<>>
       /\ handles.created = 0
       /\ sha1_digest = <<>>
       /\ pc \in {"check", "checked", "done"}
       /\ Returned => count = MAX_RETVAL
       /\ (pc = "done" /\ entry = "udf") => retval = MAX_RETVAL

\* C3 witness: the function was called with the empty string; the checker
\* was ready, and the sentinel was returned without a request.
C3_Witness ==
  /\ pc = "done"
  /\ entry = "udf"
  /\ ~input.null
  /\ ready_
  /\ Len(password_) = 0
  /\ retval = MAX_RETVAL
  /\ requests = <<>>

\* C4 (as claimed): however the checker is constructed, a password longer
\* than MAX_LENGTH bytes, or one whose conversion failed, leaves the
\* instance not ready, and check() returns the sentinel without a request.
C4_OversizeOrUnconvertedNotReady ==
  (pc # "idle" /\ ~input.null /\ (Len(input.str) > MAX_LENGTH \/ input.conv = "failed"))
    => /\ ~ready_
       /\ requests = <<>>
       /\ Returned => count = MAX_RETVAL

\* C5: when every transport attempt of a check fails (and every transport
\* handle could be created), check() returns the sentinel after exactly
\* retry_ = 3 invocations; no lookup ever makes more than 3.
C5_AllAttemptsFail ==
  /\ Len(requests) <= RETRY_INIT
  /\ Len(requests) = Len(results)
  /\ (Returned /\ results # <<>> /\ AllFailed /\ ~InTrace("easy_init_null"))
       => /\ Len(requests) = RETRY_INIT
          /\ retry_ = RETRY_INIT
          /\ count = MAX_RETVAL
  /\ (pc = "query" /\ ~InTrace("easy_init_null")) => Len(requests) < RETRY_INIT

\* C5 witness: three failed attempts, then the sentinel was returned.
C5_Witness ==
  /\ pc = "done"
  /\ entry = "udf"
  /\ Len(results) = RETRY_INIT
  /\ AllFailed
  /\ retval = MAX_RETVAL

\* C6: when the transport fails k < 3 times and then succeeds, the transport
\* was invoked exactly k + 1 times (the success is the last invocation), and
\* check() goes on to the response: for a well-formed response it returns the
\* count of the matching line, or 0 when there is none.
C6_SuccessEndsRetries ==
  (pc # "query" /\ \E i \in 1..Len(results) : results[i] = CURLE_OK)
    => /\ Fetched
       /\ \A i \in 1..(Len(results) - 1) : results[i] # CURLE_OK
       /\ Len(requests) = Len(results)
       /\ Len(results) - 1 < RETRY_INIT
       /\ handles.created = Len(results)
       /\ pc \in {"match", "checked", "thrown", "done"}
       /\ (Returned /\ WellFormed(out_data))
            => count = IF Matching(out_data, suffix) = {} THEN 0
                       ELSE DigitsValue(CountField(FirstMatching(out_data, suffix)))

\* C6 witness: two failures, then a response with the matching line; the
\* count was returned after three invocations.
C6_Witness ==
  /\ pc = "done"
  /\ Len(requests) = 3
  /\ results[1] # CURLE_OK
  /\ results[2] # CURLE_OK
  /\ results[3] = CURLE_OK
  /\ WellFormed(out_data)
  /\ Matching(out_data, suffix) # {}
  /\ count = 3

\* the first line of the response that starts with the suffix exists and
\* its count is malformed: no ':', no digits, not a number, out of range
MalformedMatch ==
  LET ls == Lines(out_data)
  IN  \E i \in 1..Len(ls) :
        /\ SubStr(ls[i], 0, SUFFIX_LEN) = suffix
        /\ \A j \in 1..(i - 1) : Find(ls[j], suffix, 0) = npos
        /\ ~IsCount(SubStrFrom(ls[i], SUFFIX_LEN + 1))

\* C7 (as claimed): no failure leaves check() by an exception, and a match
\* whose count field is malformed makes check() return the sentinel.
C7_MalformedCountYieldsSentinel ==
  /\ pc # "thrown"
  /\ (Searched /\ MalformedMatch) => count = MAX_RETVAL

\* the digests of the passwords that can be checked
DigestOf == [q \in Passwords \ {<<>>} |-> HexEncode(EVP_sha1(q))]

\* the digest prefix of a password
DigestPrefix(q) == SubStr(DigestOf[q], 0, PREFIX_LEN)

\* C8: every request of a check is the base endpoint followed by exactly the
\* 5-character digest prefix, on every attempt; so for any password whose
\* digest has the same prefix the requests are the same.
C8_OnlyPrefixSent ==
  /\ \A i \in 1..Len(requests) :
       /\ requests[i] = URL_PREFIX \o SubStr(sha1_digest, 0, PREFIX_LEN)
       /\ Len(requests[i]) = Len(URL_PREFIX) + PREFIX_LEN
  /\ requests # <<>> =>
       \A q \in Passwords \ {<<>>} :
         DigestPrefix(q) = SubStr(sha1_digest, 0, PREFIX_LEN)
           => requests = [i \in 1..Len(results) |-> URL_PREFIX \o DigestPrefix(q)]

\* C8 witness: three attempts were made for a password, and another password
\* has the same digest prefix and another digest.
C8_Witness ==
  /\ Len(requests) = RETRY_INIT
  /\ \E q \in Passwords \ {<<>>} :
       /\ q # password_
       /\ DigestPrefix(q) = SubStr(sha1_digest, 0, PREFIX_LEN)
       /\ DigestOf[q] # sha1_digest

\* C9 (as claimed): whenever the lookup succeeded and a count was parsed
\* from the response, the value check() returns differs from the sentinel.
C9_ParsedCountIsNotSentinel ==
  (Returned /\ Fetched /\ InTrace("found")) => count # MAX_RETVAL

\* C10 (as claimed): validate returns false (success) exactly when the
\* result of check() is 0.
C10_ValidateIffZero ==
  (pc = "done" /\ entry = "validate") => (status = FALSE <=> count = 0)

\* C10 (amended): validate returns false (success) exactly when the result
\* of check() is 0 and no secondary validator reports failure; a non-zero
\* result, the sentinel included, makes validate report failure, and no
\* secondary validator is then consulted.
C10_ValidateIffZeroAndNotRejected ==
  (pc = "done" /\ entry = "validate")
    => /\ status = FALSE <=> (count = 0 /\ ~rejected)
       /\ count # 0 => (status = TRUE /\ consulted = -1)

\* C10 witness: check() returned 0, a secondary validator reported failure,
\* and validate reported failure.
C10_Witness ==
  /\ pc = "done"
  /\ entry = "validate"
  /\ count = 0
  /\ rejected
  /\ status = TRUE

\* the strengths stored by the secondary validators that were applied and
\* did not fail
SecondaryStrengths == {answers[i].strength : i \in {j \in 1..Len(answers) : ~answers[j].failed}}

\* C11 (as claimed): get_strength sets the strength to 100 if the result of
\* check() is 0 and to 0 otherwise; it is never anything but 0 or 100.
C11_StrengthIsBinary ==
  (pc = "done" /\ entry = "get_strength")
    => /\ strength = IF count = 0 THEN 100 ELSE 0
       /\ strength \in {0, 100}

\* C11 (amended): get_strength sets the strength to 0 if the result of
\* check() is not 0 (the sentinel included); if it is 0, the strength is the
\* smallest of 100 and the strengths stored by the secondary validators that
\* were consulted and did not fail: 100 when none of them stores less.
C11_StrengthIsMinOfSecondary ==
  (pc = "done" /\ entry = "get_strength")
    => /\ count # 0 => (strength = 0 /\ answers = <<>> /\ status = FALSE)
       /\ count = 0 =>
            /\ strength \in SecondaryStrengths \cup {100}
            /\ \A s \in SecondaryStrengths \cup {100} : strength <= s
            /\ status = rejected

\* C11 witness: check() returned 0 and a secondary validator stored 50, which
\* is the strength handed out.
C11_Witness ==
  /\ pc = "done"
  /\ entry = "get_strength"
  /\ count = 0
  /\ ~rejected
  /\ strength = 50

\* C12: In any sequence of init_environment / deinit_environment calls, a
\* deinit_environment made while the environment is not initialised (a second
\* deinit in a row included) runs no global cleanup and leaves the state as
\* it was, a deinit_environment made while it is initialised runs exactly
\* one, and so the global cleanup never runs more often than the global
\* initialisation.
C12_DeinitIdempotent ==
  /\ [](global.cleanups <= global.inits)
  /\ [][call_deinit_environment =>
          IF curl_init_done
            THEN /\ ~curl_init_done'
                 /\ global'.cleanups = global.cleanups + 1
            ELSE /\ ~curl_init_done'
                 /\ global'.cleanups = global.cleanups
                 /\ global'.inits = global.inits]_vars

\* C12 witness: one initialisation, then two calls of deinit_environment, the
\* second of them with the environment not initialised: one cleanup.
C12_Witness ==
  /\ global = [inits |-> 1, cleanups |-> 1, deinits |-> 2]
  /\ ~curl_init_done

\* a call is between its construction of the checker and the return of check()
CheckInProgress == pc \in {"check", "query", "match"}

\* C13 (as claimed): Whenever the password_breach_check function is still
\* registered or a check() is in progress, the transport environment is
\* initialised.
C13_EnvironmentCoversUse ==
  (registered \/ CheckInProgress) => curl_init_done

\* the passwords a checker can hold, and the raw digest of each
Digested == (Passwords \cup {SubStr(q, 0, MAX_LENGTH - 1) : q \in Passwords}) \ {<<>>}

RawDigestOf == [q \in Digested |-> EVP_sha1(q)]

\* value of an uppercase hexadecimal digit
HexVal(c) == (CHOOSE i \in 1..16 : HexChars[i] = c) - 1

\* C14: A successful generate_digest leaves a string of exactly 40
\* characters, each of 0-9 / A-F, whose characters 2k-1 and 2k are the high
\* and the low hexadecimal digit of byte k of the 20-byte digest of the
\* password (first byte first, zero-padded); the string is therefore the
\* same for the same password.
C14_DigestIsUppercaseHex ==
  sha1_digest # <<>> =>
    /\ Len(sha1_digest) = 2 * SHA1_HASH_SIZE
    /\ \A i \in 1..Len(sha1_digest) : sha1_digest[i] \in {HexChars[j] : j \in 1..16}
    /\ \A k \in 1..SHA1_HASH_SIZE :
         16 * HexVal(sha1_digest[2 * k - 1]) + HexVal(sha1_digest[2 * k])
           = RawDigestOf[password_][k]

\* C14 witness: generate_digest has succeeded for a password whose digest
\* has a byte below 16 (written with a leading 0) and a byte with a letter.
C14_Witness ==
  /\ pc = "query"
  /\ sha1_digest # <<>>
  /\ \E k \in 1..SHA1_HASH_SIZE : RawDigestOf[password_][k] < 16
  /\ \E i \in 1..Len(sha1_digest) : sha1_digest[i] \in {"A", "B", "C", "D", "E", "F"}

\* C15: Once the digest is generated, the prefix has exactly 5 characters,
\* the suffix exactly 35, and the prefix followed by the suffix is the
\* 40-character digest.
C15_PrefixSuffixPartition ==
  sha1_digest # <<>> =>
    /\ Len(prefix) = PREFIX_LEN
    /\ Len(suffix) = SUFFIX_LEN
    /\ prefix \o suffix = sha1_digest

\* C15 witness: a digest has been split and the lookup is about to start.
C15_Witness ==
  /\ pc = "query"
  /\ requests = <<>>
  /\ Len(sha1_digest) = PREFIX_LEN + SUFFIX_LEN
  /\ prefix = SubStr(sha1_digest, 0, PREFIX_LEN)
  /\ suffix # <<>>

\* the lookup of this call has ended
LookupOver == pc \in {"match", "checked", "thrown", "done"}

\* C16 (as claimed): Each delay is taken only after a failed attempt and is
\* followed by a further attempt (the creation of its handle at least): no
\* delay occurs after a successful attempt or after the final failed attempt
\* before giving up.
C16_DelayOnlyBetweenAttempts ==
  /\ \A i \in 1..Len(trace) :
       trace[i] = "sleep" =>
         /\ i > 2
         /\ trace[i - 2] = "perform_failed"
         /\ LookupOver => \E j \in (i + 1)..Len(trace) :
                            trace[j] \in {"easy_init", "easy_init_null"}
  /\ \A i \in 1..Len(trace) :
       trace[i] = "perform_ok" => \A j \in (i + 1)..Len(trace) : trace[j] # "sleep"

\* the failed attempts of the lookup so far
FailedAttempts == {i \in 1..Len(results) : results[i] # CURLE_OK}

HasToken(d, tok) == \E i \in 1..Len(d.msg) : d.msg[i] = tok

\* the 'giving up' summary, lines 312-316
IsSummary(d) == HasToken(d, "Tried ")

Summaries == {i \in 1..Len(log) : IsSummary(log[i])}

\* C17: In every run of the lookup, failed attempt number i is reported by
\* the error-level diagnostic 2i-1 (with the transport's error string) and
\* the warning-level diagnostic 2i of the log; the 'giving up' summary is
\* raised exactly once, right after the diagnostics of the last attempt, if
\* and only if all max_retries attempts failed, and never on a run that ends
\* with a successful response.
C17_FailuresReportedThenOneSummary ==
  LET k == Cardinality(FailedAttempts)
  IN  IF sha1_digest = <<>>
        THEN Summaries = {}
        ELSE /\ FailedAttempts = 1..k
             /\ Len(log) >= 2 * k
             /\ \A i \in 1..k :
                  /\ log[2 * i - 1].prio = ERROR_LEVEL
                  /\ HasToken(log[2 * i - 1], curl_easy_strerror(results[i]))
                  /\ ~IsSummary(log[2 * i - 1])
                  /\ log[2 * i].prio = WARNING_LEVEL
                  /\ HasToken(log[2 * i], "Retrying ")
                  /\ ~IsSummary(log[2 * i])
             /\ Summaries = IF k = retry_ THEN {2 * k + 1} ELSE {}
             /\ k = retry_ => log[2 * k + 1].prio = WARNING_LEVEL
             /\ Fetched => Summaries = {}

\* C17 witness: all attempts have failed; the log holds their pairs of
\* diagnostics and then the summary.
C17_Witness ==
  /\ pc = "checked"
  /\ Cardinality(FailedAttempts) = RETRY_INIT
  /\ Len(log) = 2 * RETRY_INIT + 1
  /\ IsSummary(log[Len(log)])

\* a stage of the check has failed: the conversion of the password, the
\* digest, the creation of the transport handle, or the transport for good
StageFailed ==
  \/ input.conv = "failed"
  \/ InTrace("digest_failed")
  \/ InTrace("easy_init_null")
  \/ (results # <<>> /\ AllFailed /\ LookupOver)

\* C18 (as claimed): Whenever check() has returned the sentinel because a
\* stage failed, at least one error-level diagnostic has been raised.
C18_HardFailureRaisesError ==
  (Returned /\ entry # "none" /\ StageFailed)
    => /\ count = MAX_RETVAL
       /\ \E i \in 1..Len(log) : log[i].prio = ERROR_LEVEL

\* the breach diagnostic of lines 150-158
IsBreach(d) == d.prio = WARNING_LEVEL /\ HasToken(d, "The password with SHA1 prefix '")

\* the text s stands in the message of diagnostic d
Carries(d, s) == s # <<>> /\ Find(d.msg, s, 0) # npos

\* the diagnostics of the call show neither the password nor the suffix nor
\* the digest
C19_NothingLeaks ==
  \A i \in 1..Len(log) :
    /\ ~Carries(log[i], password_)
    /\ ~Carries(log[i], input.str)
    /\ ~Carries(log[i], suffix)
    /\ ~Carries(log[i], sha1_digest)

\* C19 (as claimed): check() raises the warning-level breach diagnostic
\* exactly when the suffix is found in the corpus response; that diagnostic
\* shows the 5-character prefix and the hit count; no diagnostic of the call
\* shows the password, the suffix or the full digest.
C19_BreachDiagnosticIffFound ==
  /\ Searched =>
       ((\E i \in 1..Len(log) : IsBreach(log[i])) <=> FindSuffix(out_data, suffix) # npos)
  /\ ~Searched => \A i \in 1..Len(log) : ~IsBreach(log[i])
  /\ \A i \in 1..Len(log) :
       IsBreach(log[i]) => /\ Carries(log[i], prefix)
                           /\ Carries(log[i], IntDigits(count))
  /\ C19_NothingLeaks

\* the stage that scans the response has failed: std::stoll has thrown
MatchingFailed == pc = "thrown"

\* the response has been scanned for the suffix
Scanned == InTrace("found") \/ InTrace("absent") \/ MatchingFailed

\* C20 (as claimed): The transport is invoked only after the digest was
\* generated, the response is scanned only after a transport attempt
\* succeeded, and once a stage has failed no later stage runs and check()
\* returns the sentinel.
C20_StagesInOrderTerminalOnFailure ==
  /\ requests # <<>> \/ InTrace("easy_init_null") =>
       /\ sha1_digest # <<>>
       /\ \E i \in 1..Len(trace) :
            /\ trace[i] = "digest"
            /\ \A j \in 1..(i - 1) : trace[j] \notin {"easy_init", "easy_init_null"}
  /\ Scanned => Fetched
  /\ InTrace("not_checkable") \/ InTrace("digest_failed") => requests = <<>> /\ ~Scanned
  /\ StageFailed => ~Scanned
  /\ (pc # "check" /\ (StageFailed \/ MatchingFailed)) => Returned /\ count = MAX_RETVAL

\* the call has left check() by an exception: no result is handed out
Aborted == pc = "thrown"

\* C21 (as claimed): Every call of check() makes at most max_retries
\* transport attempts, the attempt counter falling by one with every failed
\* attempt, and never ends without handing the caller a result.
C21_CheckReturnsResult ==
  /\ Len(requests) <= retry_
  /\ pc = "query" => (retry > 0 /\ retry = retry_ - Len(requests))
  /\ ~Aborted

\* C22: validate and get_strength consult the secondary validators exactly
\* when check() returned 0, never for another count or the sentinel, and the
\* function entry point never does; when a consulted secondary validator
\* reports failure, validate / get_strength report failure.
C22_SecondaryOnlyAfterCleanResult ==
  pc = "done" =>
    /\ (consulted >= 0) <=> (entry \in {"validate", "get_strength"} /\ count = 0)
    /\ consulted < 0 => (consulted = -1 /\ answers = <<>>)
    /\ consulted >= 0 => Len(answers) = consulted
    /\ (\E i \in 1..Len(answers) : answers[i].failed) => status = TRUE

\* C22 witness: get_strength found the password clean, consulted a secondary
\* validator that reported failure, and reports failure itself.
C22_Witness ==
  /\ pc = "done"
  /\ entry = "get_strength"
  /\ count = 0
  /\ consulted >= 1
  /\ answers[Len(answers)].failed
  /\ status = TRUE

\* C23 (as claimed): When the lookup has ended, every transport handle it
\* created has been cleaned up.
C23_HandlesReleased ==
  LookupOver => handles.created = handles.cleaned

\* the text of a diagnostic whose message is text
Reported(text) == raise_error(text, ERROR_LEVEL).msg

\* C24 (as claimed): The error diagnostic of failed attempt i carries that
\* attempt's transport error and nothing else, its warning that attempt's
\* retry notice and nothing else, and the summary the 'tried N times, giving
\* up' text and nothing else.
C24_DiagnosticsCarryOwnTextOnly ==
  sha1_digest # <<>> =>
    /\ \A i \in FailedAttempts :
         /\ 2 * i <= Len(log)
         /\ log[2 * i - 1].msg = Reported(GetErrorText(results[i]))
         /\ log[2 * i].msg = Reported(RetryText(retry_ - i + 1))
    /\ \A i \in Summaries : log[i].msg = Reported(GivingUpText(retry_, prefix))
====
